---- MODULE Spec2Model ----
(***************************************************************************)
(* Model of the CRUD service orchestration layer of serviceB: the Service  *)
(* (identifier validation, delegation to the Repository port, logging of   *)
(* failures through the Logger port) as its test suite pins it down, on    *)
(* top of an in-memory Repository that follows the port's contract.        *)
(***************************************************************************)
EXTENDS Integers, Sequences, FiniteSets, TLC

(***************************************************************************)
(* Bounds of the model.                                                    *)
(***************************************************************************)
\* number of Service calls in one behaviour
MaxCalls == 2
\* number of distinct identifiers the storage layer can hand out
NumKeys == 2

(***************************************************************************)
(* Optional values (Go pointers, absent map entries): <<>> is nil/absent,  *)
(* <<v>> holds v.                                                          *)
(***************************************************************************)
None == <<>>
Some(v) == <<v>>

(***************************************************************************)
(* Identifier codec: uuid.UUID, uuid.FromString and UUID.String.           *)
(* A key is the 32 nibbles of the 128-bit value; a raw string is a tuple   *)
(* of one-character strings.                                               *)
(***************************************************************************)
HexLower == <<"0", "1", "2", "3", "4", "5", "6", "7", "8", "9", "a", "b", "c", "d", "e", "f">>
HexUpper == <<"0", "1", "2", "3", "4", "5", "6", "7", "8", "9", "A", "B", "C", "D", "E", "F">>

IsHex(c) == \E i \in 1..16 : HexLower[i] = c \/ HexUpper[i] = c

HexVal(c) == (CHOOSE i \in 1..16 : HexLower[i] = c \/ HexUpper[i] = c) - 1

\* the zero value of uuid.UUID (an entity that has no identifier yet)
NilUUID == [i \in 1..32 |-> 0]

\* positions of the dashes in the canonical form 8-4-4-4-12
DashPos == {9, 14, 19, 24}

\* the nibble a position of the canonical form spells
NibbleAt(i) == i - Cardinality({d \in DashPos : d < i})

\* UUID.String: the canonical lower-case form
String(k) == [i \in 1..36 |-> IF i \in DashPos THEN "-" ELSE HexLower[k[NibbleAt(i)] + 1]]

ErrIncorrectIDLength(raw) == [kind |-> "ErrIncorrectIDLength", text |-> raw]
ErrIncorrectIDFormat(raw) == [kind |-> "ErrIncorrectIDFormat", text |-> raw]
NoErr == [kind |-> "nil", text |-> <<>>]

\* 32 hex digits without dashes
decodeHashLike(t, raw) ==
    IF \A i \in 1..32 : IsHex(t[i])
    THEN [key |-> [i \in 1..32 |-> HexVal(t[i])], err |-> NoErr]
    ELSE [key |-> NilUUID, err |-> ErrIncorrectIDFormat(raw)]

\* 8-4-4-4-12 hex digits
decodeCanonical(t, raw) ==
    IF /\ \A i \in DashPos : t[i] = "-"
       /\ \A i \in (1..36) \ DashPos : IsHex(t[i])
    THEN [key |-> [n \in 1..32 |-> HexVal(t[CHOOSE i \in (1..36) \ DashPos : NibbleAt(i) = n])],
          err |-> NoErr]
    ELSE [key |-> NilUUID, err |-> ErrIncorrectIDFormat(raw)]

\* the canonical form between braces
decodeBraced(t, raw) ==
    IF t[1] = "{" /\ t[38] = "}"
    THEN decodeCanonical(SubSeq(t, 2, 37), raw)
    ELSE [key |-> NilUUID, err |-> ErrIncorrectIDFormat(raw)]

UrnPrefix == <<"u", "r", "n", ":", "u", "u", "i", "d", ":">>

\* urn:uuid: followed by the canonical or the hash-like form
decodeURN(t, raw) ==
    IF SubSeq(t, 1, 9) = UrnPrefix
    THEN IF Len(t) = 45 THEN decodeCanonical(SubSeq(t, 10, 45), raw)
                        ELSE decodeHashLike(SubSeq(t, 10, 41), raw)
    ELSE [key |-> NilUUID, err |-> ErrIncorrectIDFormat(raw)]

\* uuid.FromString: partial, decided by the length first and the layout next
FromString(raw) ==
    CASE Len(raw) = 32 -> decodeHashLike(raw, raw)
      [] Len(raw) = 36 -> decodeCanonical(raw, raw)
      [] Len(raw) = 38 -> decodeBraced(raw, raw)
      [] Len(raw) \in {41, 45} -> decodeURN(raw, raw)
      [] OTHER -> [key |-> NilUUID, err |-> ErrIncorrectIDLength(raw)]

(***************************************************************************)
(* Entities and the inputs the calls are drawn from.                       *)
(***************************************************************************)
\* the n-th identifier of the storage layer: aaaaaaaa-..., bbbbbbbb-..., ...
Key(n) == [i \in 1..32 |-> 9 + n]
Keys == {Key(n) : n \in 1..NumKeys}

Names == {"a", "b"}

\* domain.ItemB: the identity field and one business attribute
Item(id, name) == [id |-> id, name |-> name]
Items == {Item(id, name) : id \in Keys \cup {NilUUID}, name \in Names}

\* upper-case spelling of a canonical string: well formed, not canonical
Upper(s) == [i \in 1..Len(s) |-> IF IsHex(s[i]) THEN HexUpper[HexVal(s[i]) + 1] ELSE s[i]]

\* a string of the wrong length, as assertion.InvalidIDString
InvalidIDString == <<"i", "n", "v", "a", "l", "i", "d">>
\* a string of the right length that is no hexadecimal text
NotHexString == [i \in 1..36 |-> IF i = 1 THEN "g" ELSE String(Key(1))[i]]

RawIDs == {String(k) : k \in Keys} \cup {Upper(String(Key(1))), InvalidIDString, NotHexString}

\* uuid.FromString on the strings the calls are drawn from
ParsedIDs == [raw \in RawIDs |-> FromString(raw)]
Parse(raw) == ParsedIDs[raw]

WellFormed(raw) == Parse(raw).err = NoErr

(***************************************************************************)
(* Error values of the errors package.                                     *)
(***************************************************************************)
ErrGeneric == [kind |-> "ErrGeneric", text |-> <<>>]
ErrNotFound == [kind |-> "ErrNotFound", text |-> <<>>]
ErrCreatingUUID == [kind |-> "ErrCreatingUUID", text |-> <<>>]

(***************************************************************************)
(* Repository port over an in-memory store: a set of entities.  A call     *)
(* with fault = TRUE is one in which the storage itself fails.             *)
(***************************************************************************)
Ids(st) == {e.id : e \in st}

\* a Go slice: nil, or the items it holds
NilColl == [isNil |-> TRUE, items |-> {}]
Coll(items) == [isNil |-> FALSE, items |-> items]

RepoGetAll(st, fault, nilWhenEmpty) ==
    IF fault THEN [coll |-> NilColl, err |-> ErrGeneric]
    ELSE IF st = {} /\ nilWhenEmpty THEN [coll |-> NilColl, err |-> NoErr]
    ELSE [coll |-> Coll(st), err |-> NoErr]

RepoGetByID(st, key, fault) ==
    IF fault THEN [item |-> None, err |-> ErrGeneric]
    ELSE IF key \notin Ids(st) THEN [item |-> None, err |-> ErrNotFound]
    ELSE [item |-> Some(CHOOSE e \in st : e.id = key), err |-> NoErr]

\* the identifiers Insert may assign: the ones no stored entity carries
FreshIds(st) == Keys \ Ids(st)

RepoInsert(st, item, newId, fault) ==
    IF fault THEN [item |-> None, err |-> ErrGeneric, store |-> st]
    ELSE LET created == Item(newId, item.name)
         IN [item |-> Some(created), err |-> NoErr, store |-> st \cup {created}]

RepoUpdate(st, key, item, fault) ==
    IF fault THEN [err |-> ErrGeneric, store |-> st]
    ELSE IF key \notin Ids(st) THEN [err |-> ErrNotFound, store |-> st]
    ELSE [err |-> NoErr,
          store |-> {e \in st : e.id # key} \cup {Item(key, item.name)}]

RepoRemove(st, key, fault) ==
    IF fault THEN [err |-> ErrGeneric, store |-> st]
    ELSE IF key \notin Ids(st) THEN [err |-> ErrNotFound, store |-> st]
    ELSE [err |-> NoErr, store |-> {e \in st : e.id # key}]

(***************************************************************************)
(* Logger port: the records the Service hands to it.                       *)
(***************************************************************************)
\* logrus.Fields over the three keys the Service uses; None is an absent key
Fields(itemID, requestID, itemObj) ==
    [itemIDKey |-> itemID, requestIDKey |-> requestID, itemObjKey |-> itemObj]
NoFields == Fields(None, None, None)

\* one call of Logger.Error(ctx, err, msg, fields)
LogError(err, msg, fields) == [level |-> "Error", err |-> err, msg |-> msg, fields |-> fields]

(***************************************************************************)
(* What the Service does on each path, as its tests expect it.             *)
(***************************************************************************)
\* the error handed to Logger.Error when the identifier does not parse
ParseFailLoggedAsReturned(perr) == ErrCreatingUUID
ParseFailLogged(perr) == perr

\* the error handed back to the caller when the identifier does not parse
ParseFailReturnedAsParsed(perr) == perr
ParseFailReturned(perr) == ErrCreatingUUID

\* the error handed back to the caller when the Repository fails
RepoFailReturnedWrapped(err) == ErrGeneric
RepoFailReturned(err) == err

\* the Logger calls of a failed operation
FailureLogsTwice(rec) == <<rec, rec>>
FailureLogs(rec) == <<rec>>

ParseFailFields(raw) == Fields(None, Some(raw), None)

GetByIDFields(key) == Fields(Some(key), None, None)
CreateFields(item) == Fields(None, None, Some(item))
UpdateFieldsNoItem(key, item) == Fields(Some(key), None, None)
UpdateFields(key, item) == Fields(Some(key), None, Some(item))
DeleteFieldsAsRequestID(key) == Fields(None, Some(String(key)), None)
DeleteFields(key) == Fields(Some(key), None, None)

\* what one invocation of the Repository returned
Ret(item, coll, err) == [item |-> item, coll |-> coll, err |-> err]

\* one invocation of the Repository: the arguments it received, what it returned
RepoCall(op, key, item, ret) == [op |-> op, key |-> key, item |-> item, ret |-> ret]

\* the result of one Service call: values returned, Logger and Repository
\* calls made, and the store the call leaves
Outcome(st, item, coll, err, logs, repo) ==
    [store |-> st, item |-> item, coll |-> coll, err |-> err, logs |-> logs, repo |-> repo]

\* the identifier did not parse: log, return, the Repository is not reached
ParseFailure(st, raw, perr) ==
    Outcome(st, None, NilColl, ParseFailReturned(perr),
            FailureLogs(LogError(ParseFailLogged(perr), "FailedToParseUUID", ParseFailFields(raw))),
            <<>>)

\* the Repository failed: log with the operation's message and fields, return
RepoFailure(st, err, msg, fields, call) ==
    Outcome(st, None, NilColl, RepoFailReturned(err),
            FailureLogs(LogError(err, msg, fields)), <<call>>)

\* the collection GetAll hands back on success
GetAllResultNeverNil(coll) == Coll(coll.items)
GetAllResult(coll) == coll

GetAll(st, fault, nilWhenEmpty) ==
    LET r == RepoGetAll(st, fault, nilWhenEmpty)
        call == RepoCall("GetAll", None, None, Ret(None, r.coll, r.err))
    IN IF r.err # NoErr
       THEN RepoFailure(st, r.err, "FailedToGetAll", NoFields, call)
       ELSE Outcome(st, None, GetAllResult(r.coll), NoErr, <<>>, <<call>>)

\* the entity GetOneByID hands back on success
GetOneResultNil(item) == None
GetOneResult(item) == item

GetOneByID(st, raw, fault) ==
    LET p == Parse(raw)
        r == RepoGetByID(st, p.key, fault)
        call == RepoCall("GetByID", Some(p.key), None, Ret(r.item, NilColl, r.err))
    IN IF p.err # NoErr THEN ParseFailure(st, raw, p.err)
       ELSE IF r.err # NoErr
       THEN RepoFailure(st, r.err, "FailedToGetByID", GetByIDFields(p.key), call)
       ELSE Outcome(st, GetOneResult(r.item), NilColl, NoErr, <<>>, <<call>>)

\* the entity Create hands back on success
CreateResultInput(input, inserted) == Some(input)
CreateResult(input, inserted) == inserted

Create(st, item, newId, fault) ==
    LET r == RepoInsert(st, item, newId, fault)
        call == RepoCall("Insert", None, Some(item), Ret(r.item, NilColl, r.err))
    IN IF r.err # NoErr
       THEN RepoFailure(st, r.err, "FailedToCreate", CreateFields(item), call)
       ELSE Outcome(r.store, CreateResult(item, r.item), NilColl, NoErr, <<>>, <<call>>)

\* the key Update hands to the Repository
UpdateKeyFromItem(key, item) == item.id
UpdateKey(key, item) == key

Update(st, raw, item, fault) ==
    LET p == Parse(raw)
        r == RepoUpdate(st, UpdateKey(p.key, item), item, fault)
        call == RepoCall("Update", Some(UpdateKey(p.key, item)), Some(item),
                        Ret(None, NilColl, r.err))
    IN IF p.err # NoErr THEN ParseFailure(st, raw, p.err)
       ELSE IF r.err # NoErr
       THEN RepoFailure(st, r.err, "FailedToUpdate", UpdateFields(p.key, item), call)
       ELSE Outcome(r.store, None, NilColl, NoErr, <<>>, <<call>>)

Delete(st, raw, fault) ==
    LET p == Parse(raw)
        r == RepoRemove(st, p.key, fault)
        call == RepoCall("Remove", Some(p.key), None, Ret(None, NilColl, r.err))
    IN IF p.err # NoErr THEN ParseFailure(st, raw, p.err)
       ELSE IF r.err # NoErr
       THEN RepoFailure(st, r.err, "FailedToDelete", DeleteFields(p.key), call)
       ELSE Outcome(r.store, None, NilColl, NoErr, <<>>, <<call>>)

(***************************************************************************)
(* Handler: the gin handlers of serviceB over the Service interface.       *)
(***************************************************************************)
StatusOK == 200
StatusNoContent == 204
StatusBadRequest == 400
StatusNotFound == 404
StatusInternalServerError == 500

\* an error value the status mapping has no case for
ErrUnrecognised == [kind |-> "ErrUnrecognised", text |-> <<>>]
\* the error of c.ShouldBindJSON
ErrBind == [kind |-> "ErrBind", text |-> <<>>]

\* errors.GetStatus as the specification classifies: an identifier error is a
\* client error
GetStatusIdentifierIsBadRequest(err) ==
    CASE err = ErrNotFound -> StatusNotFound
      [] err = ErrCreatingUUID -> StatusBadRequest
      [] OTHER -> StatusInternalServerError
\* errors.GetStatus as the handler's tests pin it: ErrNotFound is 404, ErrGeneric
\* and ErrCreatingUUID are 500, and so is every other error
GetStatus(err) ==
    CASE err = ErrNotFound -> StatusNotFound
      [] OTHER -> StatusInternalServerError

\* the request body: absent, not JSON, or the JSON of an item
NoBody == [kind |-> "none", item |-> None]
MalformedBody == [kind |-> "malformed", item |-> None]
JSONBody(item) == [kind |-> "json", item |-> Some(item)]

\* c.ShouldBindJSON(&input)
ShouldBindJSON(body) ==
    IF body.kind = "json" THEN [input |-> body.item, err |-> NoErr]
    ELSE [input |-> None, err |-> ErrBind]

\* one c.JSON(status, payload): the payload is an error, an item, a collection
\* or nil
Response(status, err, item, coll) ==
    [status |-> status, err |-> err, item |-> item, coll |-> coll]

\* what serving one request did: the responses written, the Service methods
\* invoked, the store left
Served(st, resp, svc) == [store |-> st, resp |-> resp, svc |-> svc]

\* one invocation of a Service method by a handler, with the error it returned
ServiceCall(op, err) == [op |-> op, err |-> err]

\* a Service behind the interface that only fails, as serviceMock Return(nil, err)
ServiceFails(st, err) == Outcome(st, None, NilColl, err, <<>>, <<>>)

\* h.deps.Service: the Service above, or when stub is an error an implementation
\* that fails with it
ServiceOf(real, st, stub) == IF stub = NoErr THEN real ELSE ServiceFails(st, stub)

\* if err != nil { c.JSON(errors.GetStatus(err), err); return }
ServiceErrorResponse(st, err, op) ==
    Served(st, <<Response(GetStatus(err), err, None, NilColl)>>, <<ServiceCall(op, err)>>)

\* if err != nil { c.JSON(http.StatusBadRequest, err); return }
BindErrorNoReturn(st, err, op) ==
    Served(st, <<Response(StatusBadRequest, err, None, NilColl),
                 Response(GetStatus(ErrGeneric), ErrGeneric, None, NilColl)>>,
           <<ServiceCall(op, ErrGeneric)>>)
BindErrorResponse(st, err, op) ==
    Served(st, <<Response(StatusBadRequest, err, None, NilColl)>>, <<>>)

HandlerGet(st, fault, nilWhenEmpty, stub) ==
    LET out == ServiceOf(GetAll(st, fault, nilWhenEmpty), st, stub)
    IN IF out.err # NoErr THEN ServiceErrorResponse(out.store, out.err, "GetAll")
       ELSE Served(out.store, <<Response(StatusOK, NoErr, None, out.coll)>>,
                   <<ServiceCall("GetAll", NoErr)>>)

HandlerFind(st, id, fault, stub) ==
    LET out == ServiceOf(GetOneByID(st, id, fault), st, stub)
    IN IF out.err # NoErr THEN ServiceErrorResponse(out.store, out.err, "GetOneByID")
       ELSE Served(out.store, <<Response(StatusOK, NoErr, out.item, NilColl)>>,
                   <<ServiceCall("GetOneByID", NoErr)>>)

HandlerCreate(st, body, newId, fault, stub) ==
    LET b == ShouldBindJSON(body)
        out == ServiceOf(Create(st, b.input[1], newId, fault), st, stub)
    IN IF b.err # NoErr THEN BindErrorResponse(st, b.err, "Create")
       ELSE IF out.err # NoErr THEN ServiceErrorResponse(out.store, out.err, "Create")
       ELSE Served(out.store, <<Response(StatusOK, NoErr, out.item, NilColl)>>,
                   <<ServiceCall("Create", NoErr)>>)

HandlerUpdate(st, id, body, fault, stub) ==
    LET b == ShouldBindJSON(body)
        out == ServiceOf(Update(st, id, b.input[1], fault), st, stub)
    IN IF b.err # NoErr THEN BindErrorResponse(st, b.err, "Update")
       ELSE IF out.err # NoErr THEN ServiceErrorResponse(out.store, out.err, "Update")
       ELSE Served(out.store, <<Response(StatusNoContent, NoErr, None, NilColl)>>,
                   <<ServiceCall("Update", NoErr)>>)

HandlerDelete(st, id, fault, stub) ==
    LET out == ServiceOf(Delete(st, id, fault), st, stub)
    IN IF out.err # NoErr THEN ServiceErrorResponse(out.store, out.err, "Delete")
       ELSE Served(out.store, <<Response(StatusNoContent, NoErr, None, NilColl)>>,
                   <<ServiceCall("Delete", NoErr)>>)

(***************************************************************************)
(* State: the store behind the Repository, the last Service call with what *)
(* it returned and the port calls it made, and the history of the run.     *)
(***************************************************************************)
VARIABLES store, last, nCalls, nFailed, nErrorLogs, nOtherLogs, written

\* the last request a handler served and what serving it did
VARIABLES hreq, hres

\* the frames of the Service calls in progress, one per caller, and the
\* dependencies the Service was constructed with
VARIABLES calls, deps

svars == <<last, nCalls, nFailed, nErrorLogs, nOtherLogs, written>>
hvars == <<hreq, hres>>
cvars == <<calls, deps>>

vars == <<store, last, nCalls, nFailed, nErrorLogs, nOtherLogs, written, hreq, hres, calls, deps>>

\* the callers that run Service calls concurrently on the one Service
Callers == {1, 2}

\* New(&DependenciesNode{Log: logMock, Repository: repoMock})
Deps == [Log |-> "logMock", Repository |-> "repoMock"]

NoOutcome == Outcome({}, None, NilColl, NoErr, <<>>, <<>>)

\* the frame of a caller that has no call in progress and returned nothing yet
IdleFrame == [pc |-> "idle", op |-> "none", raw |-> None, input |-> None,
              out |-> NoOutcome, repo |-> <<>>, logged |-> <<>>, trace |-> <<>>,
              ret |-> Ret(None, NilColl, NoErr)]

\* the stores the Repository can hold: no two entities share an identifier
Stores == {st \in SUBSET {Item(k, n) : k \in Keys, n \in Names} :
              \A e1, e2 \in st : e1.id = e2.id => e1 = e2}

NoCall == [op |-> "none", raw |-> None, input |-> None, fault |-> FALSE,
           before |-> {}, out |-> Outcome({}, None, NilColl, NoErr, <<>>, <<>>)]

NoRequest == [route |-> "none", id |-> None, body |-> NoBody, stub |-> NoErr]

Init ==
    /\ store \in Stores
    /\ last = NoCall
    /\ nCalls = 0
    /\ nFailed = 0
    /\ nErrorLogs = 0
    /\ nOtherLogs = 0
    /\ written = {}
    /\ hreq = NoRequest
    /\ hres = Served({}, <<>>, <<>>)
    /\ calls = [p \in Callers |-> IdleFrame]
    /\ deps = Deps

CountLevel(logs, isError) ==
    Cardinality({i \in 1..Len(logs) : (logs[i].level = "Error") = isError})

\* what callers were last told about a key: the entity a successful Create
\* returned, the payload of a successful Update; forgotten on Delete
Written(op, raw, input, out) ==
    LET forget(k) == {w \in written : w.key # k}
        k == Parse(raw[1]).key
    IN IF out.err # NoErr THEN written
       ELSE CASE op = "Create" /\ out.item # None ->
                   forget(out.item[1].id)
                       \cup {[key |-> out.item[1].id, by |-> "Create", item |-> out.item[1]]}
              [] op = "Update" -> forget(k) \cup {[key |-> k, by |-> "Update", item |-> input[1]]}
              [] op = "Delete" -> forget(k)
              [] OTHER -> written

\* a call returns: the store, the record of the call and the history change
Return(op, raw, input, fault, out) ==
    /\ nCalls < MaxCalls
    /\ store' = out.store
    /\ last' = [op |-> op, raw |-> raw, input |-> input, fault |-> fault,
                before |-> store, out |-> out]
    /\ nCalls' = nCalls + 1
    /\ nFailed' = nFailed + (IF out.err # NoErr THEN 1 ELSE 0)
    /\ nErrorLogs' = nErrorLogs + CountLevel(out.logs, TRUE)
    /\ nOtherLogs' = nOtherLogs + CountLevel(out.logs, FALSE)
    /\ written' = Written(op, raw, input, out)
    /\ UNCHANGED <<hvars, cvars>>

CallGetAll ==
    \E fault \in BOOLEAN, nilWhenEmpty \in BOOLEAN :
        Return("GetAll", None, None, fault, GetAll(store, fault, nilWhenEmpty))

CallGetOneByID ==
    \E raw \in RawIDs, fault \in BOOLEAN :
        Return("GetOneByID", Some(raw), None, fault, GetOneByID(store, raw, fault))

CallCreate ==
    \E item \in Items, fault \in BOOLEAN :
        \E newId \in (IF fault THEN {NilUUID} ELSE FreshIds(store)) :
            Return("Create", None, Some(item), fault, Create(store, item, newId, fault))

CallUpdate ==
    \E raw \in RawIDs, item \in Items, fault \in BOOLEAN :
        Return("Update", Some(raw), Some(item), fault, Update(store, raw, item, fault))

CallDelete ==
    \E raw \in RawIDs, fault \in BOOLEAN :
        Return("Delete", Some(raw), None, fault, Delete(store, raw, fault))

Next == CallGetAll \/ CallGetOneByID \/ CallCreate \/ CallUpdate \/ CallDelete

Spec == Init /\ [][Next]_vars

(***************************************************************************)
(* Requests served by the handlers.                                        *)
(***************************************************************************)
HandlerIDs == {String(Key(1)), InvalidIDString}
HandlerItems == {Item(NilUUID, "a"), Item(Key(1), "b")}
Bodies == {NoBody, MalformedBody} \cup {JSONBody(i) : i \in HandlerItems}
\* the Service above (NoErr), or one that fails with an error the status
\* mapping does not know
Stubs == {NoErr, ErrUnrecognised}
\* for Create also a Service that fails to create the identifier
CreateStubs == Stubs \cup {ErrCreatingUUID}

\* a handler returns: the request, what serving it did, the store it leaves
Respond(route, id, body, stub, served) ==
    /\ store' = served.store
    /\ hreq' = [route |-> route, id |-> id, body |-> body, stub |-> stub]
    /\ hres' = served
    /\ UNCHANGED <<svars, cvars>>

RequestGet ==
    \E fault \in BOOLEAN, nilWhenEmpty \in BOOLEAN, stub \in Stubs :
        Respond("Get", None, NoBody, stub, HandlerGet(store, fault, nilWhenEmpty, stub))

RequestFind ==
    \E id \in HandlerIDs, fault \in BOOLEAN, stub \in Stubs :
        Respond("Find", Some(id), NoBody, stub, HandlerFind(store, id, fault, stub))

RequestCreate ==
    \E body \in Bodies, fault \in BOOLEAN, stub \in CreateStubs :
        \E newId \in (IF fault \/ stub # NoErr \/ body.kind # "json"
                       THEN {NilUUID} ELSE FreshIds(store)) :
            Respond("Create", None, body, stub, HandlerCreate(store, body, newId, fault, stub))

RequestUpdate ==
    \E id \in HandlerIDs, body \in Bodies, fault \in BOOLEAN, stub \in Stubs :
        Respond("Update", Some(id), body, stub, HandlerUpdate(store, id, body, fault, stub))

RequestDelete ==
    \E id \in HandlerIDs, fault \in BOOLEAN, stub \in Stubs :
        Respond("Delete", Some(id), NoBody, stub, HandlerDelete(store, id, fault, stub))

HandlerNext == RequestGet \/ RequestFind \/ RequestCreate \/ RequestUpdate \/ RequestDelete

HandlerSpec == Init /\ [][HandlerNext]_vars

(***************************************************************************)
(* Service calls step by step, run by concurrent callers on one Service,   *)
(* one store and one Logger: validate, delegate, log, return.              *)
(***************************************************************************)
StepIDs == {String(Key(1)), InvalidIDString}
StepItems == {Item(NilUUID, "a"), Item(Key(1), "b")}

\* the working values of the call of caller p: its own frame
ScratchOfAnotherCall(p) ==
    IF \E q \in Callers : q # p /\ calls[q].pc \in {"log", "return"}
    THEN calls[CHOOSE q \in Callers : q # p /\ calls[q].pc \in {"log", "return"}].out
    ELSE calls[p].out
Scratch(p) == calls[p].out

\* the step a call takes after the Repository or the parse failed
AfterFailureReturn == "return"
AfterFailure == "log"

\* the frame keeps the values of the outcome, not the store
FrameOut(out) == [out EXCEPT !.store = {}]

Steps(n, name) == [i \in 1..n |-> name]

\* a caller enters a Service method with its arguments
StepStart(p) ==
    /\ calls[p].pc \in {"idle", "done"}
    /\ \E op \in {"GetAll", "GetOneByID", "Create", "Update", "Delete"} :
       \E raw \in (IF op \in {"GetOneByID", "Update", "Delete"}
                    THEN {Some(id) : id \in StepIDs} ELSE {None}) :
       \E input \in (IF op \in {"Create", "Update"}
                      THEN {Some(i) : i \in StepItems} ELSE {None}) :
           calls' = [calls EXCEPT ![p] =
                        [IdleFrame EXCEPT !.pc = IF raw # None THEN "validate" ELSE "delegate",
                                          !.op = op, !.raw = raw, !.input = input]]
    /\ UNCHANGED <<store, svars, hvars, deps>>

\* step 1: parse the identifier; on failure the Repository is skipped
StepValidate(p) ==
    /\ calls[p].pc = "validate"
    /\ LET f == calls[p]
           parsed == Parse(f.raw[1])
       IN calls' = [calls EXCEPT ![p] =
              IF parsed.err # NoErr
              THEN [f EXCEPT !.pc = AfterFailure,
                             !.out = FrameOut(ParseFailure(store, f.raw[1], parsed.err)),
                             !.trace = Append(f.trace, "validate")]
              ELSE [f EXCEPT !.pc = "delegate", !.trace = Append(f.trace, "validate")]]
    /\ UNCHANGED <<store, svars, hvars, deps>>

\* step 2: invoke the Repository operation on the shared store
StepDelegate(p) ==
    /\ calls[p].pc = "delegate"
    /\ \E fault \in BOOLEAN :
       \E newId \in (IF fault \/ calls[p].op # "Create" THEN {NilUUID} ELSE FreshIds(store)) :
           LET f == calls[p]
               out == CASE f.op = "GetAll" -> GetAll(store, fault, TRUE)
                        [] f.op = "GetOneByID" -> GetOneByID(store, f.raw[1], fault)
                        [] f.op = "Create" -> Create(store, f.input[1], newId, fault)
                        [] f.op = "Update" -> Update(store, f.raw[1], f.input[1], fault)
                        [] f.op = "Delete" -> Delete(store, f.raw[1], fault)
           IN /\ store' = out.store
              /\ calls' = [calls EXCEPT ![p] =
                     [f EXCEPT !.pc = IF out.err # NoErr THEN AfterFailure ELSE "return",
                               !.out = FrameOut(out),
                               !.repo = out.repo,
                               !.trace = f.trace \o Steps(Len(out.repo), "repo")]]
    /\ UNCHANGED <<svars, hvars, deps>>

\* step 3: hand the failure to Logger.Error
StepLog(p) ==
    /\ calls[p].pc = "log"
    /\ LET f == calls[p]
       IN calls' = [calls EXCEPT ![p] =
              [f EXCEPT !.pc = "return",
                        !.logged = f.logged \o Scratch(p).logs,
                        !.trace = f.trace \o Steps(Len(Scratch(p).logs), "log")]]
    /\ UNCHANGED <<store, svars, hvars, deps>>

\* the call returns its result and error to the caller
StepReturn(p) ==
    /\ calls[p].pc = "return"
    /\ LET f == calls[p]
       IN calls' = [calls EXCEPT ![p] =
              [f EXCEPT !.pc = "done",
                        !.ret = Ret(Scratch(p).item, Scratch(p).coll, Scratch(p).err),
                        !.trace = Append(f.trace, "return")]]
    /\ UNCHANGED <<store, svars, hvars, deps>>

StepNext ==
    \E p \in Callers :
        StepStart(p) \/ StepValidate(p) \/ StepDelegate(p) \/ StepLog(p) \/ StepReturn(p)

\* the concurrent calls start on an empty store or on one entity
StepInit == Init /\ store \subseteq {Item(Key(1), "a")}

StepSpec == StepInit /\ [][StepNext]_vars

(***************************************************************************)
(* Properties.                                                             *)
(***************************************************************************)
IdOps == {"GetOneByID", "Update", "Delete"}

\* the last call took an identifier string, and it was malformed
LastMalformed == last.op \in IdOps /\ ~WellFormed(last.raw[1])

\* the key the identifier string of the last call spells
LastKey == Parse(last.raw[1]).key

\* the last call reached the Repository and the Repository did not fail by itself
LastServed == last.op # "none" /\ ~last.fault /\ ~LastMalformed

\* C1: a malformed identifier string makes GetOneByID, Update and Delete fail
\* with ErrCreatingUUID without any Repository invocation, whatever the store
\* holds, and the store is left as it was.
C1_MalformedIdNeverReachesRepository ==
    LastMalformed =>
        /\ last.out.err = ErrCreatingUUID
        /\ last.out.repo = <<>>
        /\ store = last.before

C1_Witness ==
    /\ last.op = "Update"
    /\ last.raw = Some(NotHexString)
    /\ last.before # {}
    /\ last.out.err = ErrCreatingUUID
    /\ last.out.repo = <<>>

\* C2: when the Repository operation a Service call invoked returned an error,
\* the call returns exactly that error, and GetAll, GetOneByID and Create
\* return a nil result with it.
C2_RepositoryErrorReturnedUnchanged ==
    \A i \in 1..Len(last.out.repo) :
        last.out.repo[i].ret.err # NoErr =>
            /\ last.out.err = last.out.repo[i].ret.err
            /\ last.op \in {"GetAll", "GetOneByID", "Create"} =>
                   last.out.item = None /\ last.out.coll = NilColl

C2_Witness ==
    /\ last.op = "GetOneByID"
    /\ Len(last.out.repo) = 1
    /\ last.out.repo[1].ret.err = ErrNotFound
    /\ last.out.err = ErrNotFound
    /\ last.out.item = None

\* C3 as stated: in every failed call the error handed to Logger.Error is the
\* error returned to the caller.
C3_LoggedErrorIsReturnedError ==
    last.out.err # NoErr =>
        /\ Len(last.out.logs) >= 1
        /\ \A i \in 1..Len(last.out.logs) : last.out.logs[i].err = last.out.err

\* C3 amended: when the Repository failed, the error handed to Logger.Error is
\* the error returned to the caller; when the identifier did not parse,
\* Logger.Error receives the parse error of uuid.FromString (which carries the
\* raw string) and the caller receives ErrCreatingUUID.
C3_LoggedErrorPerFailure ==
    last.out.err # NoErr =>
        /\ Len(last.out.logs) >= 1
        /\ \A i \in 1..Len(last.out.logs) :
               IF LastMalformed
               THEN /\ last.out.logs[i].err = Parse(last.raw[1]).err
                    /\ last.out.err = ErrCreatingUUID
               ELSE last.out.logs[i].err = last.out.err

C3_Witness ==
    /\ last.op = "GetOneByID"
    /\ last.raw = Some(InvalidIDString)
    /\ last.out.err = ErrCreatingUUID
    /\ last.out.logs[1].err = ErrIncorrectIDLength(InvalidIDString)

\* C4: over the calls made so far, Logger.Error was invoked as many times as
\* calls returned an error; the last call invoked it once if it failed and not
\* at all if it succeeded; Info, Warn and Debug were never invoked.
C4_OneErrorLogPerFailedCall ==
    /\ nErrorLogs = nFailed
    /\ nOtherLogs = 0
    /\ CountLevel(last.out.logs, TRUE) = (IF last.out.err # NoErr THEN 1 ELSE 0)
    /\ CountLevel(last.out.logs, FALSE) = 0

C4_Witness ==
    /\ nCalls >= 2
    /\ nFailed >= 1
    /\ nFailed < nCalls
    /\ nErrorLogs = nFailed

\* the message and the fields the Logger must receive for the last call when
\* it failed
ExpectedMsg ==
    IF LastMalformed THEN "FailedToParseUUID"
    ELSE CASE last.op = "GetAll" -> "FailedToGetAll"
           [] last.op = "GetOneByID" -> "FailedToGetByID"
           [] last.op = "Create" -> "FailedToCreate"
           [] last.op = "Update" -> "FailedToUpdate"
           [] last.op = "Delete" -> "FailedToDelete"

ExpectedFields ==
    IF LastMalformed THEN [itemIDKey |-> None, requestIDKey |-> last.raw, itemObjKey |-> None]
    ELSE CASE last.op = "GetAll" ->
                [itemIDKey |-> None, requestIDKey |-> None, itemObjKey |-> None]
           [] last.op = "GetOneByID" ->
                [itemIDKey |-> Some(LastKey), requestIDKey |-> None, itemObjKey |-> None]
           [] last.op = "Create" ->
                [itemIDKey |-> None, requestIDKey |-> None, itemObjKey |-> last.input]
           [] last.op = "Update" ->
                [itemIDKey |-> Some(LastKey), requestIDKey |-> None, itemObjKey |-> last.input]
           [] last.op = "Delete" ->
                [itemIDKey |-> Some(LastKey), requestIDKey |-> None, itemObjKey |-> None]

\* C5: the record a failed call hands to Logger.Error carries the operation's
\* own message and exactly its fields: none for GetAll, the parsed key for
\* GetOneByID and Delete, the input entity for Create, key and input entity for
\* Update, and the parse message with the raw string when the identifier did
\* not parse.
C5_LoggedMessageAndFields ==
    last.out.err # NoErr =>
        /\ Len(last.out.logs) >= 1
        /\ \A i \in 1..Len(last.out.logs) :
               /\ last.out.logs[i].msg = ExpectedMsg
               /\ last.out.logs[i].fields = ExpectedFields

C5_Witness ==
    /\ last.op = "Update"
    /\ last.raw = Some(Upper(String(Key(1))))
    /\ last.out.err = ErrNotFound
    /\ last.out.logs[1].msg = "FailedToUpdate"
    /\ last.out.logs[1].fields.itemIDKey = Some(Key(1))
    /\ last.out.logs[1].fields.itemObjKey = last.input

\* C6: once Create has succeeded and returned c, a GetOneByID with the string
\* form of c.id that the Repository serves succeeds and returns an entity equal
\* to c in every field (as long as c was not updated or deleted in between).
C6_GetAfterCreateReturnsCreated ==
    \A w \in written :
        (/\ w.by = "Create"
         /\ last.op = "GetOneByID"
         /\ ~last.fault
         /\ last.raw = Some(String(w.key))) =>
            /\ w.item.id = w.key
            /\ last.out.err = NoErr
            /\ last.out.item = Some(w.item)

C6_Witness ==
    \E w \in written :
        /\ w.by = "Create"
        /\ last.op = "GetOneByID"
        /\ last.raw = Some(String(w.key))
        /\ last.out.err = NoErr
        /\ last.out.item = Some(w.item)
        /\ last.before # {w.item}

\* C7: an Update of a stored key that the Repository serves returns no error; a
\* later GetOneByID of that key returns the key with the attributes of the
\* payload, also when the payload carries another id; and no call changes the
\* id of a stored entity: Update and the reads leave the set of stored ids as it
\* was, Create only adds one and Delete only removes the one it was given.
C7_UpdateKeepsIdentity ==
    /\ (last.op = "Update" /\ LastServed /\ LastKey \in Ids(last.before)) =>
           /\ last.out.err = NoErr
           /\ Item(LastKey, last.input[1].name) \in store
    /\ \A w \in written :
           (/\ w.by = "Update"
            /\ last.op = "GetOneByID"
            /\ LastServed
            /\ LastKey = w.key) =>
               /\ last.out.err = NoErr
               /\ last.out.item = Some(Item(w.key, w.item.name))
    /\ last.op \in {"GetAll", "GetOneByID", "Update"} => Ids(store) = Ids(last.before)
    /\ last.op = "Create" => Ids(last.before) \subseteq Ids(store)
    /\ last.op = "Delete" => Ids(store) \in {Ids(last.before), Ids(last.before) \ {LastKey}}

C7_Witness ==
    \E w \in written :
        /\ w.by = "Update"
        /\ w.item.id \in Keys \ {w.key}
        /\ last.op = "GetOneByID"
        /\ LastKey = w.key
        /\ last.out.item = Some(Item(w.key, w.item.name))
        /\ w.item.id \notin Ids(store)

\* C8: for a well-formed identifier that is not in the store, a Delete (and a
\* GetOneByID) that the Repository serves fails with ErrNotFound, and Logger.Error
\* is invoked exactly once, with ErrNotFound and the parsed key as the item id.
C8_AbsentKeyIsNotFound ==
    (/\ last.op \in {"Delete", "GetOneByID"}
     /\ LastServed
     /\ LastKey \notin Ids(last.before)) =>
        /\ last.out.err = ErrNotFound
        /\ Len(last.out.logs) = 1
        /\ last.out.logs[1].level = "Error"
        /\ last.out.logs[1].err = ErrNotFound
        /\ last.out.logs[1].fields =
               [itemIDKey |-> Some(LastKey), requestIDKey |-> None, itemObjKey |-> None]
        /\ store = last.before

C8_Witness ==
    /\ last.op = "Delete"
    /\ last.raw = Some(String(Key(1)))
    /\ last.before # {}
    /\ Key(1) \notin Ids(last.before)
    /\ last.out.err = ErrNotFound
    /\ Len(last.out.logs) = 1

\* C9: a GetAll that the Repository serves returns the Repository's collection
\* as it is, the stored entities, with no error and no Logger call; on an empty
\* store it returns the nil or empty collection the Repository returned.
C9_GetAllReturnsCollectionUnchanged ==
    (last.op = "GetAll" /\ ~last.fault) =>
        /\ last.out.err = NoErr
        /\ last.out.logs = <<>>
        /\ Len(last.out.repo) = 1
        /\ last.out.coll = last.out.repo[1].ret.coll
        /\ last.out.coll.items = last.before
        /\ store = last.before

C9_Witness ==
    /\ last.op = "GetAll"
    /\ last.before = {}
    /\ last.out.coll = NilColl
    /\ last.out.err = NoErr
    /\ last.out.logs = <<>>
    /\ nCalls = 1

\* C10: the entity a successful Create returns carries a non-empty id that no
\* entity of the store carried at the time of the insert, and no two stored
\* entities ever share an id.
C10_CreatedIdIsFreshAndUnique ==
    /\ (last.op = "Create" /\ last.out.err = NoErr) =>
           /\ last.out.item # None
           /\ last.out.item[1].id # NilUUID
           /\ last.out.item[1].id \notin Ids(last.before)
           /\ last.out.item[1] \in store
    /\ \A e1, e2 \in store : e1.id = e2.id => e1 = e2

C10_Witness ==
    /\ last.op = "Create"
    /\ last.out.err = NoErr
    /\ last.before # {}
    /\ last.input[1].id \in Ids(last.before)
    /\ last.out.item[1].id \notin Ids(last.before)
    /\ Cardinality(store) = Cardinality(last.before) + 1

(***************************************************************************)
(* Properties of the handlers, under HandlerSpec.                          *)
(***************************************************************************)
\* the last request had a body to bind and the binding failed
LastBindFailed == hreq.route \in {"Create", "Update"} /\ hreq.body.kind # "json"

\* the last request invoked the Service and the Service returned this error
LastServiceError == IF hres.svc = <<>> THEN NoErr ELSE hres.svc[1].err

\* the status the classification of the specification gives the last request
ClaimedStatus ==
    IF LastBindFailed THEN StatusBadRequest
    ELSE CASE LastServiceError = ErrCreatingUUID -> StatusBadRequest
           [] LastServiceError = ErrNotFound -> StatusNotFound
           [] LastServiceError # NoErr -> StatusInternalServerError
           [] hreq.route \in {"Get", "Find", "Create"} -> StatusOK
           [] OTHER -> StatusNoContent

\* C11: the response status is a total function of the Service outcome: 400 for
\* an invalid identifier (ErrCreatingUUID) or a failed validation, 404 for
\* ErrNotFound, 500 for every other error, 200 on success of Get, Find and
\* Create, 204 on success of Update and Delete.
C11_StatusIsClassOfServiceOutcome ==
    hreq.route # "none" =>
        /\ Len(hres.resp) = 1
        /\ hres.resp[1].status = ClaimedStatus

\* C12: Create and Update bind the body before they invoke the Service: when the
\* binding fails the response is 400 and the Service is not invoked; the Service
\* is invoked at most once and only with a bound body; every handler writes
\* exactly one response per request.
C12_BindBeforeServiceOneResponse ==
    /\ LastBindFailed =>
           /\ hres.resp = <<Response(StatusBadRequest, ErrBind, None, NilColl)>>
           /\ hres.svc = <<>>
    /\ hreq.route # "none" => Len(hres.resp) = 1
    /\ Len(hres.svc) <= 1
    /\ (hreq.route \in {"Create", "Update"} /\ hres.svc # <<>>) => hreq.body.kind = "json"
    /\ (hreq.route \in {"Get", "Find", "Delete"}) => Len(hres.svc) = 1

C12_Witness ==
    /\ hreq.route = "Update"
    /\ hreq.body = MalformedBody
    /\ hreq.id = Some(String(Key(1)))
    /\ Key(1) \in Ids(store)
    /\ Len(hres.resp) = 1
    /\ hres.resp[1].status = StatusBadRequest
    /\ hres.svc = <<>>

\* C15: when the Service's Create fails with ErrCreatingUUID, Handler.Create
\* responds 500 Internal Server Error with that error.
C15_CreateUUIDFailureIsInternalError ==
    (/\ hreq.route = "Create"
     /\ hres.svc # <<>>
     /\ LastServiceError = ErrCreatingUUID) =>
        hres.resp = <<Response(StatusInternalServerError, ErrCreatingUUID, None, NilColl)>>

C15_Witness ==
    /\ hreq.route = "Create"
    /\ hreq.body = JSONBody(Item(NilUUID, "a"))
    /\ hres.svc = <<ServiceCall("Create", ErrCreatingUUID)>>
    /\ hres.resp[1].status = StatusInternalServerError

(***************************************************************************)
(* Properties of the calls step by step, under StepSpec.                   *)
(***************************************************************************)
\* the place of a step in the order validate, delegate, log, return
Rank(step) ==
    CASE step = "validate" -> 1
      [] step = "repo" -> 2
      [] step = "log" -> 3
      [] step = "return" -> 4

Did(f, step) == \E i \in 1..Len(f.trace) : f.trace[i] = step

\* the call of this frame took an identifier string that does not parse
FrameMalformed(f) == f.raw # None /\ ~WellFormed(f.raw[1])

\* the error the call of this frame has met so far
FrameErr(f) == IF f.pc = "done" THEN f.ret.err ELSE f.out.err

\* C13: in every Service call the steps taken so far are in the order identifier
\* validation, Repository invocation, Logger.Error, return, each at most once (no
\* retry); the Repository is reached only after the identifier was validated and
\* not at all when it was malformed; a call that is returning or has returned an
\* error has issued its log call before, and one that succeeded has logged nothing.
C13_StepsInOrder ==
    \A p \in Callers :
        LET f == calls[p]
        IN /\ \A i, j \in 1..Len(f.trace) : i < j => Rank(f.trace[i]) < Rank(f.trace[j])
           /\ (Did(f, "repo") /\ f.raw # None) => Did(f, "validate")
           /\ FrameMalformed(f) => ~Did(f, "repo")
           /\ Len(f.repo) <= 1
           /\ Len(f.logged) <= 1
           /\ (f.pc \in {"return", "done"} /\ FrameErr(f) # NoErr) => Did(f, "log")
           /\ (f.pc \in {"return", "done"} /\ FrameErr(f) = NoErr) => ~Did(f, "log")
           /\ f.pc = "done" <=> Did(f, "return")

C13_Witness ==
    /\ calls[1].pc = "done"
    /\ calls[1].op = "Delete"
    /\ calls[1].trace = <<"validate", "repo", "log", "return">>
    /\ calls[1].ret.err = ErrNotFound
    /\ calls[2].pc = "done"
    /\ calls[2].op = "Update"
    /\ calls[2].trace = <<"validate", "log", "return">>
    /\ calls[2].ret.err = ErrCreatingUUID

\* the Repository operation a Service method delegates to
RepoOpOf(op) ==
    CASE op = "GetAll" -> "GetAll"
      [] op = "GetOneByID" -> "GetByID"
      [] op = "Create" -> "Insert"
      [] op = "Update" -> "Update"
      [] op = "Delete" -> "Remove"

\* the fields the log record of the call of this frame must carry: its own
\* identifier and its own entity
OwnFields(f) ==
    IF FrameMalformed(f) THEN [itemIDKey |-> None, requestIDKey |-> f.raw, itemObjKey |-> None]
    ELSE [itemIDKey |-> IF f.raw # None THEN Some(Parse(f.raw[1]).key) ELSE None,
          requestIDKey |-> None,
          itemObjKey |-> f.input]

====
